---- MODULE Spec2Model ----
(***************************************************************************)
(* Model of the capture-session supervisor of main.py: the three module    *)
(* globals capture_process / capture_active / selenium_start_time, the     *)
(* request handlers api_capture_xpath (start), api_stop_capture (stop) and *)
(* api_capture_status (status) run by concurrent request threads, and the  *)
(* SIGINT/SIGTERM handler signal_handler with cleanup_selenium_processes.  *)
(* The operating system's process table, the wall clock and the log files  *)
(* are the environment.                                                    *)
(***************************************************************************)
EXTENDS Integers, Sequences, FiniteSets, TLC

(* ------------------------------ bounds -------------------------------- *)
MaxTime == 3          \* wall-clock readings are 1..MaxTime
MaxEnv == 2           \* processes started by someone else than Popen
MaxSpawn == 2         \* subprocesses Popen may create
MaxCalls == 3         \* requests accepted in one run
NumThreads == 2       \* concurrent request threads

(* ------------------------- program constants -------------------------- *)
WaitTimeout == 5      \* capture_process.wait(timeout=5)

Threads == 1..NumThreads
EnvPids == 1..MaxEnv
SubPids == (MaxEnv + 1)..(MaxEnv + MaxSpawn)
Pids == EnvPids \cup SubPids
Times == 1..MaxTime

None == 0             \* Python's None for a handle, a pid or a timestamp
Truthy(x) == x # None \* truth value of a handle / timestamp that is not 0

(* ----------------------------- strings -------------------------------- *)
(* A string is the sequence of its characters; names and command lines of  *)
(* processes are kept in the state as keys of Chars.                       *)
Chars ==
  [ n_edgedriver |-> <<"M","S","E","d","g","e","D","r","i","v","e","r",".","e","x","e">>,
    n_edge |-> <<"m","s","e","d","g","e",".","e","x","e">>,
    n_python |-> <<"p","y","t","h","o","n",".","e","x","e">>,
    c_plain |-> <<"m","s","e","d","g","e",".","e","x","e">>,
    c_debug |-> <<"m","s","e","d","g","e"," ","-","-","r","e","m","o","t","e","-",
                  "d","e","b","u","g","g","i","n","g","-","p","o","r","t","=","0">>,
    c_python |-> <<"p","y","t","h","o","n"," ","-","m">> ]

LowerChar(c) ==
  CASE c = "M" -> "m" [] c = "S" -> "s" [] c = "E" -> "e" [] c = "D" -> "d"
    [] OTHER -> c

lower(s) == [i \in 1..Len(s) |-> LowerChar(s[i])]

\* Python's `pat in s`
IsSubstr(pat, s) ==
  \E i \in 0..(Len(s) - Len(pat)) :
     \A j \in 1..Len(pat) : s[i + j] = pat[j]

P_chromedriver == <<"c","h","r","o","m","e","d","r","i","v","e","r">>
P_msedgedriver == <<"m","s","e","d","g","e","d","r","i","v","e","r">>
P_geckodriver == <<"g","e","c","k","o","d","r","i","v","e","r">>
P_chrome == <<"c","h","r","o","m","e">>
P_msedge == <<"m","s","e","d","g","e">>
P_firefox == <<"f","i","r","e","f","o","x">>
P_selenium == <<"s","e","l","e","n","i","u","m">>
P_remote == <<"-","-","r","e","m","o","t","e","-","d","e","b","u","g","g","i","n","g",
              "-","p","o","r","t">>

StopDrivers == {P_chromedriver, P_msedgedriver, P_geckodriver}
StopBrowsers == {P_chrome, P_msedge, P_firefox}
CleanupDrivers == {P_msedgedriver}

\* The images a process of the environment may run: name and command line.
Images ==
  { [name |-> "n_edgedriver", cmd |-> "c_plain"],
    [name |-> "n_edge", cmd |-> "c_debug"],
    [name |-> "n_edge", cmd |-> "c_plain"] }

PythonImage == [name |-> "n_python", cmd |-> "c_python"]

\* an entry of the process table: st is free (no such process yet), alive or
\* dead; term: a terminate request was sent; by/thr: what ended the process and
\* the value of selenium_start_time when it did
FreeProc == [st |-> "free", name |-> "n_python", cmd |-> "c_python", ctime |-> 0,
             term |-> FALSE, by |-> "none", thr |-> None]

NewProc(img, t) == [st |-> "alive", name |-> img.name, cmd |-> img.cmd, ctime |-> t,
                    term |-> FALSE, by |-> "none", thr |-> None]

\* a response: its kind, the pid it carries, its error or URL text, and the
\* process names a stop reports
Resp(kind, pid, err, killed) ==
  [kind |-> kind, pid |-> pid, err |-> err, killed |-> killed]

NoRes == Resp("none", None, "none", <<>>)

VARIABLES
  capture_process,      \* the Popen handle (its pid) or None
  capture_active,
  selenium_start_time,  \* a clock reading or None
  now,                  \* what time.time() returns
  procs,                \* the operating system's process table
  pc,                   \* where each request thread is
  res,                  \* the response each thread returned last
  logs,                 \* the log sinks of a thread's launch: none/open/closed
  spawned,              \* the pid the thread's Popen call created, or None
  killed_processes,     \* the stop sweep's list, per thread
  waitOn,               \* the handle a thread's wait() blocks on
  waited,               \* time units the wait has lasted
  exc,                  \* the exception a thread's except block handles
  hpc,                  \* where signal_handler is
  hWaitOn,
  hWaited,
  exited,               \* os._exit was called
  exitCode,             \* <<>> while running, <<status>> after os._exit(status)
  logTrunc,             \* times the log files were created/truncated
  budget,               \* requests the run still accepts
  prevStart             \* selenium_start_time of the session the last stop ended

vars == <<capture_process, capture_active, selenium_start_time, now, procs, pc,
          res, logs, spawned, killed_processes, waitOn, waited, exc, hpc, hWaitOn,
          hWaited, exited, exitCode, logTrunc, budget,
          prevStart>>


\* no request is being served and no signal was delivered
Quiet ==
  /\ pc = [t \in Threads |-> "idle"]
  /\ res = [t \in Threads |-> NoRes]
  /\ logs = [t \in Threads |-> "none"]
  /\ spawned = [t \in Threads |-> None]
  /\ killed_processes = [t \in Threads |-> <<>>]
  /\ waitOn = [t \in Threads |-> None]
  /\ waited = [t \in Threads |-> 0]
  /\ exc = [t \in Threads |-> "none"]
  /\ hpc = "h_idle"
  /\ hWaitOn = None
  /\ hWaited = 0
  /\ exited = FALSE
  /\ exitCode = <<>>
  /\ prevStart = None

\* the state after the module is loaded (lines 136-138)
Idle ==
  /\ capture_process = None
  /\ capture_active = FALSE
  /\ selenium_start_time = None

Init ==
  /\ Quiet
  /\ Idle
  /\ now = 1
  /\ procs = [p \in Pids |-> FreeProc]
  /\ budget = MaxCalls
  /\ logTrunc = 0

(* ------------------------- the process table -------------------------- *)
Alive(p) == p \in Pids /\ procs[p].st = "alive"

\* Popen.poll() is None
Running(h) == Alive(h)

\* what a terminate request does to the table: the process is asked to exit
Terminated(tbl, p) ==
  IF tbl[p].st = "alive" THEN [tbl EXCEPT ![p].term = TRUE] ELSE tbl

\* what a forced kill does to the table
Killed(tbl, p, by) ==
  IF tbl[p].st = "alive"
    THEN [tbl EXCEPT ![p].st = "dead", ![p].by = by, ![p].thr = selenium_start_time]
    ELSE tbl

KilledAll(tbl, S, by) ==
  [p \in Pids |-> IF p \in S THEN Killed(tbl, p, by)[p] ELSE tbl[p]]

FreeSub == {p \in SubPids : procs[p].st = "free"}
FreeEnv == {p \in EnvPids : procs[p].st = "free"}

\* a request handler returns: its locals are gone, the response is recorded
Return(t, r) ==
  /\ pc' = [pc EXCEPT ![t] = "idle"]
  /\ res' = [res EXCEPT ![t] = r]
  /\ logs' = [logs EXCEPT ![t] = "none"]
  /\ spawned' = [spawned EXCEPT ![t] = None]
  /\ killed_processes' = [killed_processes EXCEPT ![t] = <<>>]
  /\ waitOn' = [waitOn EXCEPT ![t] = None]
  /\ waited' = [waited EXCEPT ![t] = 0]
  /\ exc' = [exc EXCEPT ![t] = "none"]

Goto(t, label) == pc' = [pc EXCEPT ![t] = label]

(* --------------------- api_capture_xpath (start) ---------------------- *)
\* StartCheck without the test of line 193
StartCheck_NoGuard(t) ==
  /\ ~exited /\ pc[t] = "idle" /\ budget > 0
  /\ budget' = budget - 1
  /\ Goto(t, "s_resolve")
  /\ res' = [res EXCEPT ![t] = NoRes]
  /\ UNCHANGED <<logs, spawned, killed_processes, waitOn, waited, exc>>
  /\ UNCHANGED <<capture_process, capture_active, selenium_start_time, now,
                 procs, hpc, hWaitOn, hWaited, exited, exitCode, logTrunc,
                 prevStart>>

\* line 193: the active check
StartCheck(t) ==
  /\ ~exited /\ pc[t] = "idle" /\ budget > 0
  /\ budget' = budget - 1
  /\ IF capture_active
       THEN Return(t, Resp("start_rejected", None, "already_running", <<>>))
       ELSE /\ Goto(t, "s_resolve")
            /\ res' = [res EXCEPT ![t] = NoRes]
            /\ UNCHANGED <<logs, spawned, killed_processes, waitOn, waited, exc>>
  /\ UNCHANGED <<capture_process, capture_active, selenium_start_time, now,
                 procs, hpc, hWaitOn, hWaited, exited, exitCode, logTrunc,
                 prevStart>>

\* lines 200-230: the interpreter, the script and the driver are looked up in
\* this order; the first one missing raises FileNotFoundError
Lookup == {"ok", "no_python", "script_not_found", "driver_not_found"}

\* StartResolve with a timestamp taken once, not at each launch
StartResolve_StaleClock(t) ==
  /\ ~exited /\ pc[t] = "s_resolve"
  /\ \E found \in Lookup :
       IF found = "ok"
         THEN /\ selenium_start_time' = 1
              /\ Goto(t, "s_logs")
              /\ exc' = exc
         ELSE /\ exc' = [exc EXCEPT ![t] = found]
              /\ Goto(t, "s_except")
              /\ selenium_start_time' = selenium_start_time
  /\ UNCHANGED <<capture_process, capture_active, now, procs, res, logs,
                 spawned, killed_processes, waitOn, waited, hpc, hWaitOn,
                 hWaited, exited, exitCode, logTrunc, budget, prevStart>>

\* StartResolve with the log files opened before the lookups
StartResolve_LogsFirst(t) ==
  /\ ~exited /\ pc[t] = "s_resolve"
  /\ \E found \in Lookup :
       IF found = "ok"
         THEN /\ selenium_start_time' = now
              /\ Goto(t, "s_logs")
              /\ exc' = exc
         ELSE /\ exc' = [exc EXCEPT ![t] = found]
              /\ Goto(t, "s_except")
              /\ selenium_start_time' = selenium_start_time
  /\ logs' = [logs EXCEPT ![t] = "open"]
  /\ logTrunc' = logTrunc + 1
  /\ UNCHANGED <<capture_process, capture_active, now, procs, res, spawned,
                 killed_processes, waitOn, waited, hpc, hWaitOn, hWaited,
                 exited, exitCode, budget, prevStart>>

\* lines 200-232: the lookups, then the clock is read
StartResolve(t) ==
  /\ ~exited /\ pc[t] = "s_resolve"
  /\ \E found \in Lookup :
       IF found = "ok"
         THEN /\ selenium_start_time' = now
              /\ Goto(t, "s_logs")
              /\ exc' = exc
         ELSE /\ exc' = [exc EXCEPT ![t] = found]
              /\ Goto(t, "s_except")
              /\ selenium_start_time' = selenium_start_time
  /\ UNCHANGED <<capture_process, capture_active, now, procs, res, logs,
                 spawned, killed_processes, waitOn, waited, hpc, hWaitOn,
                 hWaited, exited, exitCode, logTrunc, budget, prevStart>>

\* lines 235-239: the logs directory and the two log files opened with 'w'
StartLogs(t) ==
  /\ ~exited /\ pc[t] = "s_logs"
  /\ \E ok \in BOOLEAN :
       IF ok
         THEN /\ logs' = [logs EXCEPT ![t] = "open"]
              /\ logTrunc' = logTrunc + 1
              /\ Goto(t, "s_spawn")
              /\ exc' = exc
         ELSE /\ exc' = [exc EXCEPT ![t] = "os_error"]
              /\ Goto(t, "s_except")
              /\ UNCHANGED <<logs, logTrunc>>
  /\ UNCHANGED <<capture_process, capture_active, selenium_start_time, now,
                 procs, res, spawned, killed_processes, waitOn, waited, hpc,
                 hWaitOn, hWaited, exited, exitCode, budget, prevStart>>

\* lines 245-258: the interpreter must exist; Popen creates the subprocess
\* and the handle is bound to the global
StartSpawn(t) ==
  /\ ~exited /\ pc[t] = "s_spawn"
  /\ \E out \in {"ok", "python_not_found", "spawn_failed"} :
       IF out = "ok" /\ FreeSub # {}
         THEN LET p == CHOOSE q \in FreeSub : \A r \in FreeSub : q <= r IN
              /\ procs' = [procs EXCEPT ![p] = NewProc(PythonImage, now)]
              /\ capture_process' = p
              /\ spawned' = [spawned EXCEPT ![t] = p]
              /\ Goto(t, "s_activate")
              /\ exc' = exc
         ELSE /\ exc' = [exc EXCEPT ![t] =
                           IF out = "ok" THEN "spawn_failed" ELSE out]
              /\ Goto(t, "s_except")
              /\ UNCHANGED <<procs, capture_process, spawned>>
  /\ UNCHANGED <<capture_active, selenium_start_time, now, res, logs,
                 killed_processes, waitOn, waited, hpc, hWaitOn, hWaited,
                 exited, exitCode, logTrunc, budget, prevStart>>

\* line 259
StartActivate(t) ==
  /\ ~exited /\ pc[t] = "s_activate"
  /\ capture_active' = TRUE
  /\ Goto(t, "s_return")
  /\ UNCHANGED <<capture_process, selenium_start_time, now, procs, res, logs,
                 spawned, killed_processes, waitOn, waited, exc, hpc, hWaitOn,
                 hWaited, exited, exitCode, logTrunc, budget, prevStart>>

\* lines 260-266: the response carries capture_process.pid, read from the
\* global; a None there raises AttributeError inside the try
StartReturn(t) ==
  /\ ~exited /\ pc[t] = "s_return"
  /\ IF capture_process = None
       THEN /\ exc' = [exc EXCEPT ![t] = "attribute_error"]
            /\ Goto(t, "s_except")
            /\ UNCHANGED <<res, logs, spawned, killed_processes, waitOn, waited>>
       ELSE Return(t, Resp("start_ok", capture_process, "none", <<>>))
  /\ UNCHANGED <<capture_process, capture_active, selenium_start_time, now,
                 procs, hpc, hWaitOn, hWaited, exited, exitCode, logTrunc,
                 budget, prevStart>>

\* line 269: if capture_process:
StartExcept(t) ==
  /\ ~exited /\ pc[t] = "s_except"
  /\ Goto(t, IF Truthy(capture_process) THEN "s_exc_term" ELSE "s_exc_reset")
  /\ UNCHANGED <<capture_process, capture_active, selenium_start_time, now,
                 procs, res, logs, spawned, killed_processes, waitOn, waited,
                 exc, hpc, hWaitOn, hWaited, exited, exitCode, logTrunc,
                 budget, prevStart>>

\* line 270: capture_process.terminate(), not inside any try: an error here
\* leaves the handler, and the reset of lines 271-275 never runs
StartExceptTerminate(t) ==
  /\ ~exited /\ pc[t] = "s_exc_term"
  /\ \E ok \in BOOLEAN :
       IF capture_process # None /\ ok
         THEN /\ procs' = Terminated(procs, capture_process)
              /\ Goto(t, "s_exc_reset")
              /\ UNCHANGED <<res, logs, spawned, killed_processes, waitOn, waited,
                             exc>>
         ELSE /\ Return(t, Resp("http_500", None,
                                IF capture_process = None
                                  THEN "attribute_error" ELSE "os_error", <<>>))
              /\ procs' = procs
  /\ UNCHANGED <<capture_process, capture_active, selenium_start_time, now,
                 hpc, hWaitOn, hWaited, exited, exitCode, logTrunc, budget,
                 prevStart>>

\* lines 271-279: the reset, the log sinks closed, the failure returned
StartExceptReset(t) ==
  /\ ~exited /\ pc[t] = "s_exc_reset"
  /\ capture_process' = None
  /\ capture_active' = FALSE
  /\ selenium_start_time' = None
  /\ Return(t, Resp("start_failed", None, exc[t], <<>>))
  /\ UNCHANGED <<now, procs, hpc, hWaitOn, hWaited, exited, exitCode, logTrunc,
                 budget, prevStart>>

(* ---------------------- api_stop_capture (stop) ----------------------- *)
HasAny(pats, s) == \E pat \in pats : IsSubstr(pat, s)

\* StopVictim without the creation-time test of line 300
StopVictim_NoThreshold(p, since) ==
  /\ Alive(p)
  /\ LET pname == lower(Chars[procs[p].name])
         cmdline == lower(Chars[procs[p].cmd])
     IN \/ HasAny(StopDrivers, pname)
        \/ /\ ~HasAny(StopDrivers, pname)
           /\ HasAny(StopBrowsers, pname)
           /\ (IsSubstr(P_selenium, cmdline) \/ IsSubstr(P_remote, cmdline))

\* StopVictim without the command-line test of lines 307-308
StopVictim_NoEvidence(p, since) ==
  /\ Alive(p)
  /\ Truthy(since) /\ procs[p].ctime > since
  /\ LET pname == lower(Chars[procs[p].name])
     IN \/ HasAny(StopDrivers, pname)
        \/ /\ ~HasAny(StopDrivers, pname)
           /\ HasAny(StopBrowsers, pname)

\* lines 300-310: what the stop sweep kills, given the threshold it reads
StopVictim(p, since) ==
  /\ Alive(p)
  /\ Truthy(since) /\ procs[p].ctime > since
  /\ LET pname == lower(Chars[procs[p].name])
         cmdline == lower(Chars[procs[p].cmd])
     IN \/ HasAny(StopDrivers, pname)
        \/ /\ ~HasAny(StopDrivers, pname)
           /\ HasAny(StopBrowsers, pname)
           /\ (IsSubstr(P_selenium, cmdline) \/ IsSubstr(P_remote, cmdline))

\* the names appended to killed_processes (pname, the lower-cased name), in the
\* order of the iteration
RECURSIVE NamesOf(_, _)
NamesOf(S, from) ==
  IF from > MaxEnv + MaxSpawn THEN <<>>
  ELSE (IF from \in S THEN <<lower(Chars[procs[from].name])>> ELSE <<>>)
         \o NamesOf(S, from + 1)

\* the except block of lines 332-337
StopError(t, e) == Return(t, Resp("stop_error", None, e, <<>>))

\* StopCheck without the test of line 288
StopCheck_NoGuard(t) ==
  /\ ~exited /\ pc[t] = "idle" /\ budget > 0
  /\ budget' = budget - 1
  /\ Goto(t, "p_sweep")
  /\ res' = [res EXCEPT ![t] = NoRes]
  /\ UNCHANGED <<logs, spawned, killed_processes, waitOn, waited, exc>>
  /\ UNCHANGED <<capture_process, capture_active, selenium_start_time, now,
                 procs, hpc, hWaitOn, hWaited, exited, exitCode, logTrunc,
                 prevStart>>

\* line 288: the active check
StopCheck(t) ==
  /\ ~exited /\ pc[t] = "idle" /\ budget > 0
  /\ budget' = budget - 1
  /\ IF ~capture_active
       THEN Return(t, Resp("stop_rejected", None, "no_capture_running", <<>>))
       ELSE /\ Goto(t, "p_sweep")
            /\ res' = [res EXCEPT ![t] = NoRes]
            /\ UNCHANGED <<logs, spawned, killed_processes, waitOn, waited, exc>>
  /\ UNCHANGED <<capture_process, capture_active, selenium_start_time, now,
                 procs, hpc, hWaitOn, hWaited, exited, exitCode, logTrunc,
                 prevStart>>

\* StopSweep without the per-process except of lines 311-312
StopSweep_SkipFails(t) ==
  /\ ~exited /\ pc[t] = "p_sweep"
  /\ LET cand == {p \in Pids : StopVictim(p, selenium_start_time)} IN
     \E skip \in SUBSET cand, raiseAt \in {None} \cup {p \in Pids : Alive(p)} :
       LET seen == IF raiseAt = None THEN cand ELSE {p \in cand : p < raiseAt}
           victims == seen \ skip
       IN /\ procs' = KilledAll(procs, victims, "stop_sweep")
          /\ IF raiseAt = None /\ skip = {}
               THEN /\ Goto(t, "p_if")
                    /\ killed_processes' =
                         [killed_processes EXCEPT ![t] = NamesOf(victims, 1)]
                    /\ UNCHANGED <<res, logs, spawned, waitOn, waited, exc>>
               ELSE StopError(t, IF raiseAt = None THEN "no_such_process"
                                                    ELSE "sweep_error")
  /\ UNCHANGED <<capture_process, capture_active, selenium_start_time, now,
                 hpc, hWaitOn, hWaited, exited, exitCode, logTrunc, budget,
                 prevStart>>

\* lines 296-312: the sweep over psutil.process_iter. `skip` are the processes
\* whose inspection or kill raised NoSuchProcess / AccessDenied / ZombieProcess;
\* `raiseAt` is the process at which any other exception was raised (None: no
\* such exception), which ends the sweep in the handler's except block.
StopSweep(t) ==
  /\ ~exited /\ pc[t] = "p_sweep"
  /\ LET cand == {p \in Pids : StopVictim(p, selenium_start_time)} IN
     \E skip \in SUBSET cand, raiseAt \in {None} \cup {p \in Pids : Alive(p)} :
       LET seen == IF raiseAt = None THEN cand ELSE {p \in cand : p < raiseAt}
           victims == seen \ skip
       IN /\ procs' = KilledAll(procs, victims, "stop_sweep")
          /\ IF raiseAt = None
               THEN /\ Goto(t, "p_if")
                    /\ killed_processes' =
                         [killed_processes EXCEPT ![t] = NamesOf(victims, 1)]
                    /\ UNCHANGED <<res, logs, spawned, waitOn, waited, exc>>
               ELSE StopError(t, "sweep_error")
  /\ UNCHANGED <<capture_process, capture_active, selenium_start_time, now,
                 hpc, hWaitOn, hWaited, exited, exitCode, logTrunc, budget,
                 prevStart>>

\* line 315, first operand: if capture_process
StopIf(t) ==
  /\ ~exited /\ pc[t] = "p_if"
  /\ Goto(t, IF Truthy(capture_process) THEN "p_poll" ELSE "p_reset")
  /\ UNCHANGED <<capture_process, capture_active, selenium_start_time, now,
                 procs, res, logs, spawned, killed_processes, waitOn, waited,
                 exc, hpc, hWaitOn, hWaited, exited, exitCode, logTrunc,
                 budget, prevStart>>

\* StopPoll without the poll() of line 315: terminate whenever the handle is set
StopPoll_NoPoll(t) ==
  /\ ~exited /\ pc[t] = "p_poll"
  /\ IF capture_process = None
       THEN StopError(t, "attribute_error")
       ELSE /\ Goto(t, "p_term")
            /\ UNCHANGED <<res, logs, spawned, killed_processes, waitOn, waited,
                           exc>>
  /\ UNCHANGED <<capture_process, capture_active, selenium_start_time, now,
                 procs, hpc, hWaitOn, hWaited, exited, exitCode, logTrunc,
                 budget, prevStart>>

\* line 315, second operand: capture_process.poll() is None
StopPoll(t) ==
  /\ ~exited /\ pc[t] = "p_poll"
  /\ IF capture_process = None
       THEN StopError(t, "attribute_error")
       ELSE /\ Goto(t, IF Running(capture_process) THEN "p_term" ELSE "p_reset")
            /\ UNCHANGED <<res, logs, spawned, killed_processes, waitOn, waited,
                           exc>>
  /\ UNCHANGED <<capture_process, capture_active, selenium_start_time, now,
                 procs, hpc, hWaitOn, hWaited, exited, exitCode, logTrunc,
                 budget, prevStart>>

\* StopTerminate with the session reset when terminate() raises
StopTerminate_ResetOnError(t) ==
  /\ ~exited /\ pc[t] = "p_term"
  /\ \E ok \in BOOLEAN :
       IF capture_process # None /\ ok
         THEN /\ procs' = Terminated(procs, capture_process)
              /\ Goto(t, "p_wait")
              /\ UNCHANGED <<res, logs, spawned, killed_processes, waitOn, waited,
                             exc>>
              /\ UNCHANGED <<capture_process, capture_active, selenium_start_time>>
         ELSE /\ StopError(t, IF capture_process = None
                                THEN "attribute_error" ELSE "os_error")
              /\ procs' = procs
              /\ capture_process' = None
              /\ capture_active' = FALSE
              /\ selenium_start_time' = None
  /\ UNCHANGED <<now, hpc, hWaitOn, hWaited, exited, exitCode, logTrunc,
                 budget, prevStart>>

\* line 316: capture_process.terminate()
StopTerminate(t) ==
  /\ ~exited /\ pc[t] = "p_term"
  /\ \E ok \in BOOLEAN :
       IF capture_process # None /\ ok
         THEN /\ procs' = Terminated(procs, capture_process)
              /\ Goto(t, "p_wait")
              /\ UNCHANGED <<res, logs, spawned, killed_processes, waitOn, waited,
                             exc>>
         ELSE /\ StopError(t, IF capture_process = None
                                THEN "attribute_error" ELSE "os_error")
              /\ procs' = procs
  /\ UNCHANGED <<capture_process, capture_active, selenium_start_time, now,
                 hpc, hWaitOn, hWaited, exited, exitCode, logTrunc, budget,
                 prevStart>>

\* line 318: capture_process.wait(timeout=5) is entered
StopWait(t) ==
  /\ ~exited /\ pc[t] = "p_wait"
  /\ IF capture_process = None
       THEN StopError(t, "attribute_error")
       ELSE /\ waitOn' = [waitOn EXCEPT ![t] = capture_process]
            /\ waited' = [waited EXCEPT ![t] = 0]
            /\ Goto(t, "p_waiting")
            /\ UNCHANGED <<res, logs, spawned, killed_processes, exc>>
  /\ UNCHANGED <<capture_process, capture_active, selenium_start_time, now,
                 procs, hpc, hWaitOn, hWaited, exited, exitCode, logTrunc,
                 budget, prevStart>>

\* a time unit passes inside wait()
StopWaitTick(t) ==
  /\ ~exited /\ pc[t] = "p_waiting"
  /\ Alive(waitOn[t]) /\ waited[t] < WaitTimeout
  /\ waited' = [waited EXCEPT ![t] = @ + 1]
  /\ UNCHANGED <<capture_process, capture_active, selenium_start_time, now,
                 procs, pc, res, logs, spawned, killed_processes, waitOn, exc,
                 hpc, hWaitOn, hWaited, exited, exitCode, logTrunc, budget,
                 prevStart>>

\* wait() returns: the subprocess has exited
StopWaitDone(t) ==
  /\ ~exited /\ pc[t] = "p_waiting"
  /\ ~Alive(waitOn[t])
  /\ Goto(t, "p_reset")
  /\ waitOn' = [waitOn EXCEPT ![t] = None]
  /\ waited' = [waited EXCEPT ![t] = 0]
  /\ UNCHANGED <<capture_process, capture_active, selenium_start_time, now,
                 procs, res, logs, spawned, killed_processes, exc, hpc,
                 hWaitOn, hWaited, exited, exitCode, logTrunc, budget,
                 prevStart>>

\* line 319: wait() raises TimeoutExpired
StopWaitTimeout(t) ==
  /\ ~exited /\ pc[t] = "p_waiting"
  /\ Alive(waitOn[t]) /\ waited[t] >= WaitTimeout
  /\ Goto(t, "p_kill")
  /\ waitOn' = [waitOn EXCEPT ![t] = None]
  /\ waited' = [waited EXCEPT ![t] = 0]
  /\ UNCHANGED <<capture_process, capture_active, selenium_start_time, now,
                 procs, res, logs, spawned, killed_processes, exc, hpc,
                 hWaitOn, hWaited, exited, exitCode, logTrunc, budget,
                 prevStart>>

\* StopKill with the kill of line 320 left out
StopKill_NoKill(t) ==
  /\ ~exited /\ pc[t] = "p_kill"
  /\ \E ok \in BOOLEAN :
       IF capture_process # None /\ ok
         THEN /\ procs' = procs
              /\ Goto(t, "p_reset")
              /\ UNCHANGED <<res, logs, spawned, killed_processes, waitOn, waited,
                             exc>>
         ELSE /\ StopError(t, IF capture_process = None
                                THEN "attribute_error" ELSE "os_error")
              /\ procs' = procs
  /\ UNCHANGED <<capture_process, capture_active, selenium_start_time, now,
                 hpc, hWaitOn, hWaited, exited, exitCode, logTrunc, budget,
                 prevStart>>

\* line 320: capture_process.kill()
StopKill(t) ==
  /\ ~exited /\ pc[t] = "p_kill"
  /\ \E ok \in BOOLEAN :
       IF capture_process # None /\ ok
         THEN /\ procs' = Killed(procs, capture_process, "stop_kill")
              /\ Goto(t, "p_reset")
              /\ UNCHANGED <<res, logs, spawned, killed_processes, waitOn, waited,
                             exc>>
         ELSE /\ StopError(t, IF capture_process = None
                                THEN "attribute_error" ELSE "os_error")
              /\ procs' = procs
  /\ UNCHANGED <<capture_process, capture_active, selenium_start_time, now,
                 hpc, hWaitOn, hWaited, exited, exitCode, logTrunc, budget,
                 prevStart>>

\* StopReset without the assignment of line 322
StopReset_KeepsHandle(t) ==
  /\ ~exited /\ pc[t] = "p_reset"
  /\ capture_process' = capture_process
  /\ capture_active' = FALSE
  /\ selenium_start_time' = None
  /\ prevStart' = selenium_start_time
  /\ Return(t, Resp("stop_ok", None, "none", killed_processes[t]))
  /\ UNCHANGED <<now, procs, hpc, hWaitOn, hWaited, exited, exitCode, logTrunc,
                 budget>>

\* lines 322-330: the reset and the success response
StopReset(t) ==
  /\ ~exited /\ pc[t] = "p_reset"
  /\ capture_process' = None
  /\ capture_active' = FALSE
  /\ selenium_start_time' = None
  /\ prevStart' = selenium_start_time
  /\ Return(t, Resp("stop_ok", None, "none", killed_processes[t]))
  /\ UNCHANGED <<now, procs, hpc, hWaitOn, hWaited, exited, exitCode, logTrunc,
                 budget>>

(* -------------------- api_capture_status (status) --------------------- *)
\* `global capture_driver` is declared in api_capture_status, and no statement
\* of the module ever binds the name
Unbound == "unbound"
capture_driver == Unbound

\* lines 466-483
StatusCall(t) ==
  /\ ~exited /\ pc[t] = "idle" /\ budget > 0
  /\ budget' = budget - 1
  /\ IF ~capture_active
       THEN Return(t, Resp("status_inactive", None, "none", <<>>))
       ELSE IF capture_driver = Unbound
         THEN \* line 474 raises NameError, outside the try of line 475
              Return(t, Resp("http_500", None, "name_error", <<>>))
         ELSE \* the probe of line 476 returns a URL or raises; both are answered
              \E url \in {"null", "url"} :
                 Return(t, Resp("status_active", None, url, <<>>))
  /\ UNCHANGED <<capture_process, capture_active, selenium_start_time, now,
                 procs, hpc, hWaitOn, hWaited, exited, exitCode, logTrunc,
                 prevStart>>

(* ------------- cleanup_selenium_processes, signal_handler ------------- *)
\* lines 139-140: never assigned anywhere in the module
selenium_browser_pids == {}
ui_browser_pid == None

\* lines 147-161: what the signal-triggered sweep kills
CleanupVictim(p) ==
  /\ Alive(p)
  /\ \/ p \in selenium_browser_pids /\ p # ui_browser_pid
     \/ HasAny(CleanupDrivers, lower(Chars[procs[p].name]))

\* a termination signal is delivered and signal_handler starts
Signal ==
  /\ ~exited /\ hpc = "h_idle"
  /\ hpc' = "h_cleanup"
  /\ UNCHANGED <<capture_process, capture_active, selenium_start_time, now,
                 procs, pc, res, logs, spawned, killed_processes, waitOn,
                 waited, exc, hWaitOn, hWaited, exited, exitCode, logTrunc,
                 budget, prevStart>>

\* lines 169-172: cleanup_selenium_processes(); `skip` and `raiseAt` as in the
\* stop sweep; every exception is caught and logged
HandlerCleanup ==
  /\ ~exited /\ hpc = "h_cleanup"
  /\ LET cand == {p \in Pids : CleanupVictim(p)} IN
     \E skip \in SUBSET cand, raiseAt \in {None} \cup {p \in Pids : Alive(p)} :
       LET seen == IF raiseAt = None THEN cand ELSE {p \in cand : p < raiseAt}
           victims == seen \ skip
       IN procs' = KilledAll(procs, victims, "cleanup_sweep")
  /\ hpc' = "h_if"
  /\ UNCHANGED <<capture_process, capture_active, selenium_start_time, now, pc,
                 res, logs, spawned, killed_processes, waitOn, waited, exc,
                 hWaitOn, hWaited, exited, exitCode, logTrunc, budget,
                 prevStart>>

\* line 173, first operand: if capture_process
HandlerIf ==
  /\ ~exited /\ hpc = "h_if"
  /\ hpc' = IF Truthy(capture_process) THEN "h_poll" ELSE "h_exit"
  /\ UNCHANGED <<capture_process, capture_active, selenium_start_time, now,
                 procs, pc, res, logs, spawned, killed_processes, waitOn,
                 waited, exc, hWaitOn, hWaited, exited, exitCode, logTrunc,
                 budget, prevStart>>

\* line 173, second operand: capture_process.poll() is None; the line is not
\* inside a try, so an AttributeError here leaves signal_handler
HandlerPoll ==
  /\ ~exited /\ hpc = "h_poll"
  /\ hpc' = IF capture_process = None THEN "h_raised"
            ELSE IF Running(capture_process) THEN "h_term" ELSE "h_exit"
  /\ UNCHANGED <<capture_process, capture_active, selenium_start_time, now,
                 procs, pc, res, logs, spawned, killed_processes, waitOn,
                 waited, exc, hWaitOn, hWaited, exited, exitCode, logTrunc,
                 budget, prevStart>>

\* line 175: capture_process.terminate(); lines 180-181 catch every exception
HandlerTerminate ==
  /\ ~exited /\ hpc = "h_term"
  /\ \E ok \in BOOLEAN :
       IF capture_process # None /\ ok
         THEN /\ procs' = Terminated(procs, capture_process)
              /\ hpc' = "h_wait"
         ELSE /\ hpc' = "h_exit"
              /\ procs' = procs
  /\ UNCHANGED <<capture_process, capture_active, selenium_start_time, now, pc,
                 res, logs, spawned, killed_processes, waitOn, waited, exc,
                 hWaitOn, hWaited, exited, exitCode, logTrunc, budget,
                 prevStart>>

\* line 177: capture_process.wait(timeout=5) is entered
HandlerWait ==
  /\ ~exited /\ hpc = "h_wait"
  /\ IF capture_process = None
       THEN /\ hpc' = "h_exit"
            /\ UNCHANGED <<hWaitOn, hWaited>>
       ELSE /\ hWaitOn' = capture_process
            /\ hWaited' = 0
            /\ hpc' = "h_waiting"
  /\ UNCHANGED <<capture_process, capture_active, selenium_start_time, now,
                 procs, pc, res, logs, spawned, killed_processes, waitOn,
                 waited, exc, exited, exitCode, logTrunc, budget, prevStart>>

\* a time unit passes inside wait()
HandlerWaitTick ==
  /\ ~exited /\ hpc = "h_waiting"
  /\ Alive(hWaitOn) /\ hWaited < WaitTimeout
  /\ hWaited' = hWaited + 1
  /\ UNCHANGED <<capture_process, capture_active, selenium_start_time, now,
                 procs, pc, res, logs, spawned, killed_processes, waitOn,
                 waited, exc, hpc, hWaitOn, exited, exitCode, logTrunc, budget,
                 prevStart>>

\* HandlerWaitDone with the kill issued whether wait() timed out or not
HandlerWaitDone_ThenKill ==
  /\ ~exited /\ hpc = "h_waiting"
  /\ ~Alive(hWaitOn)
  /\ hpc' = "h_kill"
  /\ hWaitOn' = None
  /\ hWaited' = 0
  /\ UNCHANGED <<capture_process, capture_active, selenium_start_time, now,
                 procs, pc, res, logs, spawned, killed_processes, waitOn,
                 waited, exc, exited, exitCode, logTrunc, budget, prevStart>>

\* wait() returns: the subprocess has exited
HandlerWaitDone ==
  /\ ~exited /\ hpc = "h_waiting"
  /\ ~Alive(hWaitOn)
  /\ hpc' = "h_exit"
  /\ hWaitOn' = None
  /\ hWaited' = 0
  /\ UNCHANGED <<capture_process, capture_active, selenium_start_time, now,
                 procs, pc, res, logs, spawned, killed_processes, waitOn,
                 waited, exc, exited, exitCode, logTrunc, budget, prevStart>>

\* line 178: TimeoutExpired
HandlerWaitTimeout ==
  /\ ~exited /\ hpc = "h_waiting"
  /\ Alive(hWaitOn) /\ hWaited >= WaitTimeout
  /\ hpc' = "h_kill"
  /\ hWaitOn' = None
  /\ hWaited' = 0
  /\ UNCHANGED <<capture_process, capture_active, selenium_start_time, now,
                 procs, pc, res, logs, spawned, killed_processes, waitOn,
                 waited, exc, exited, exitCode, logTrunc, budget, prevStart>>

\* line 179: capture_process.kill(); an exception is caught by line 180
HandlerKill ==
  /\ ~exited /\ hpc = "h_kill"
  /\ \E ok \in BOOLEAN :
       procs' = IF capture_process # None /\ ok
                  THEN Killed(procs, capture_process, "signal_kill")
                  ELSE procs
  /\ hpc' = "h_exit"
  /\ UNCHANGED <<capture_process, capture_active, selenium_start_time, now, pc,
                 res, logs, spawned, killed_processes, waitOn, waited, exc,
                 hWaitOn, hWaited, exited, exitCode, logTrunc, budget,
                 prevStart>>

\* line 183: os._exit(0)
HandlerExit ==
  /\ ~exited /\ hpc = "h_exit"
  /\ exited' = TRUE
  /\ exitCode' = <<0>>
  /\ hpc' = "h_done"
  /\ UNCHANGED <<capture_process, capture_active, selenium_start_time, now,
                 procs, pc, res, logs, spawned, killed_processes, waitOn,
                 waited, exc, hWaitOn, hWaited, logTrunc, budget, prevStart>>

(* --------------------------- the environment -------------------------- *)
\* the wall clock advances
Tick ==
  /\ ~exited /\ now < MaxTime
  /\ now' = now + 1
  /\ UNCHANGED <<capture_process, capture_active, selenium_start_time, procs,
                 pc, res, logs, spawned, killed_processes, waitOn, waited, exc,
                 hpc, hWaitOn, hWaited, exited, exitCode, logTrunc, budget,
                 prevStart>>

\* somebody (the capture subprocess, the user) starts a driver or a browser
EnvSpawn ==
  /\ ~exited /\ FreeEnv # {}
  /\ \E img \in Images :
       LET p == CHOOSE q \in FreeEnv : \A r \in FreeEnv : q <= r IN
       procs' = [procs EXCEPT ![p] = NewProc(img, now)]
  /\ UNCHANGED <<capture_process, capture_active, selenium_start_time, now, pc,
                 res, logs, spawned, killed_processes, waitOn, waited, exc,
                 hpc, hWaitOn, hWaited, exited, exitCode, logTrunc, budget,
                 prevStart>>

\* a subprocess exits, on its own or because it was asked to
ProcExit ==
  /\ ~exited
  /\ \E p \in SubPids :
       /\ Alive(p)
       /\ procs' = [procs EXCEPT ![p].st = "dead", ![p].by = "exit"]
  /\ UNCHANGED <<capture_process, capture_active, selenium_start_time, now, pc,
                 res, logs, spawned, killed_processes, waitOn, waited, exc,
                 hpc, hWaitOn, hWaited, exited, exitCode, logTrunc, budget,
                 prevStart>>

\* the steps of the request thread t
Request(t) ==
  \/ StartCheck(t)
  \/ StartResolve(t)
  \/ StartLogs(t)
  \/ StartSpawn(t)
  \/ StartActivate(t)
  \/ StartReturn(t)
  \/ StartExcept(t)
  \/ StartExceptTerminate(t)
  \/ StartExceptReset(t)
  \/ StopCheck(t)
  \/ StopSweep(t)
  \/ StopIf(t)
  \/ StopPoll(t)
  \/ StopTerminate(t)
  \/ StopWait(t)
  \/ StopWaitTick(t)
  \/ StopWaitDone(t)
  \/ StopWaitTimeout(t)
  \/ StopKill(t)
  \/ StopReset(t)
  \/ StatusCall(t)

\* the steps of signal_handler
Handler ==
  \/ Signal
  \/ HandlerCleanup
  \/ HandlerIf
  \/ HandlerPoll
  \/ HandlerTerminate
  \/ HandlerWait
  \/ HandlerWaitTick
  \/ HandlerWaitDone
  \/ HandlerWaitTimeout
  \/ HandlerKill
  \/ HandlerExit

(* ------------------------- the specifications ------------------------- *)
\* Spec: the requests of one client, served one after the other from the
\* state after construction, while the clock advances and processes come and
\* go. (Served one at a time, line 270 is never reached: the global handle is
\* None whenever a launch fails.)
Next ==
  \/ StartCheck(1)
  \/ StartResolve(1)
  \/ StartLogs(1)
  \/ StartSpawn(1)
  \/ StartActivate(1)
  \/ StartReturn(1)
  \/ StartExcept(1)
  \/ StartExceptReset(1)
  \/ StopCheck(1)
  \/ StopSweep(1)
  \/ StopIf(1)
  \/ StopPoll(1)
  \/ StopTerminate(1)
  \/ StopWait(1)
  \/ StopWaitTick(1)
  \/ StopWaitDone(1)
  \/ StopWaitTimeout(1)
  \/ StopKill(1)
  \/ StopReset(1)
  \/ StatusCall(1)
  \/ Tick
  \/ EnvSpawn
  \/ ProcExit

Spec == Init /\ [][Next]_vars

\* the session a launch at time T left running, its subprocess created at T
\* as the first of SubPids, beside the processes tbl of the environment
Active(T, tbl) ==
  LET sp == MaxEnv + 1 IN
  /\ capture_process = sp
  /\ capture_active = TRUE
  /\ selenium_start_time = T
  /\ procs = [p \in Pids |->
                IF p = sp THEN NewProc(PythonImage, T)
                ELSE IF p \in DOMAIN tbl THEN tbl[p] ELSE FreeProc]

NoTable == [p \in {} |-> FreeProc]

\* SpecRace: two request threads run concurrently, each serving one request,
\* from the idle state or from a running session.
InitRace ==
  /\ Quiet
  /\ now = 1
  /\ budget = NumThreads
  /\ \/ Idle /\ procs = [p \in Pids |-> FreeProc] /\ logTrunc = 0
     \/ Active(1, NoTable) /\ logTrunc = 1

NextRace ==
  \/ \E t \in Threads : Request(t)
  \/ ProcExit

SpecRace == InitRace /\ [][NextRace]_vars

\* the tables of MaxEnv processes of the environment, created at any times
Tables == [EnvPids -> {NewProc(img, c) : img \in Images, c \in Times}]

\* SpecSignal: a termination signal may be delivered while one stop request
\* is served, with no session or one running since any time T, among any
\* processes.
InitSignal ==
  /\ Quiet
  /\ now = MaxTime
  /\ budget = 1
  /\ logTrunc = 1
  /\ \E T \in Times, tbl \in Tables :
       \/ Active(T, tbl)
       \/ Idle /\ procs = [p \in Pids |-> IF p \in EnvPids THEN tbl[p] ELSE FreeProc]

NextSignal ==
  \/ Handler
  \/ StopCheck(1)
  \/ StopSweep(1)
  \/ StopIf(1)
  \/ StopPoll(1)
  \/ StopTerminate(1)
  \/ StopWait(1)
  \/ StopWaitTick(1)
  \/ StopWaitDone(1)
  \/ StopWaitTimeout(1)
  \/ StopKill(1)
  \/ StopReset(1)
  \/ ProcExit

SpecSignal == InitSignal /\ [][NextSignal]_vars
(* ------------------------------ the claims ---------------------------- *)
SpawnedPids == {p \in SubPids : procs[p].st # "free"}

\* C1: a start request made while a session is active is answered 'already
\* running', and the step changes neither the handle, the active flag, the
\* start time nor any process.
C1_RejectedStartChangesNothing ==
  [][\A t \in Threads :
       (StartCheck(t) /\ capture_active) =>
          /\ res'[t] = Resp("start_rejected", None, "already_running", <<>>)
          /\ pc'[t] = "idle"
          /\ UNCHANGED <<capture_process, capture_active, selenium_start_time,
                         procs>>]_vars

C1_Witness ==
  \E t \in Threads :
     /\ res[t].kind = "start_rejected"
     /\ capture_active /\ capture_process # None /\ Alive(capture_process)

\* C2: when both threads have made a start request and each was answered with
\* success or 'already running', at most one was answered with success, at
\* most one subprocess was ever spawned, and the handle is the winner's.
C2_ExactlyOneStartWins ==
  (\A t \in Threads :
      pc[t] = "idle" /\ res[t].kind \in {"start_ok", "start_rejected"}) =>
    /\ Cardinality({t \in Threads : res[t].kind = "start_ok"}) <= 1
    /\ Cardinality(SpawnedPids) <= 1
    /\ \A t \in Threads : res[t].kind = "start_ok" => res[t].pid = capture_process

\* C3: no process that a sweep (of stop or of the signal handler) killed was
\* created at or before the start time the session had at that moment.
C3_SweepSparesOlderProcesses ==
  \A p \in Pids :
     (procs[p].by \in {"stop_sweep", "cleanup_sweep"} /\ Truthy(procs[p].thr)) =>
        procs[p].ctime > procs[p].thr

\* C5: a status request is always answered: {active: false} without a
\* session, {active: true, currentUrl: ...} with one; it never ends in an
\* error.
C5_StatusNeverFails ==
  \A t \in Threads : ~(res[t].kind = "http_500" /\ res[t].err = "name_error")

\* C6 (as amended): wait() ends in the forced kill only after WaitTimeout time
\* units with the subprocess still running; the kill of line 320 then either
\* leaves the subprocess ended (by the kill, unless it had just exited), after
\* which the session is reset to idle and the stop
\* is answered with success, or raises, after which the stop is answered with
\* an error and the session is left as it was.
C6_TimeoutEscalates ==
  [][\A t \in Threads :
       /\ (pc[t] = "p_waiting" /\ pc'[t] = "p_kill") =>
             (waited[t] = WaitTimeout /\ Alive(waitOn[t]) /\ procs[waitOn[t]].term)
       /\ (pc[t] = "p_kill" /\ pc'[t] # "p_kill") =>
             \/ /\ pc'[t] = "p_reset"
                /\ capture_process # None
                /\ procs'[capture_process].st = "dead"
                /\ procs'[capture_process].by \in {"stop_kill", "exit"}
                /\ Alive(capture_process) => procs'[capture_process].by = "stop_kill"
             \/ /\ pc'[t] = "idle" /\ res'[t].kind = "stop_error"
                /\ UNCHANGED <<capture_process, capture_active,
                               selenium_start_time, procs>>
       /\ (pc[t] = "p_reset" /\ pc'[t] # "p_reset") =>
             /\ pc'[t] = "idle" /\ res'[t].kind = "stop_ok"
             /\ Idle']_vars

C6_Witness ==
  \E t \in Threads, p \in SubPids :
     /\ pc[t] = "idle" /\ res[t].kind = "stop_ok" /\ Idle
     /\ procs[p].by = "stop_kill" /\ procs[p].term

\* C6 as claimed: once the forced kill is reached, the stop goes on to the
\* reset (and so to the success response).
C6_Original ==
  [][\A t \in Threads : (pc[t] = "p_kill" /\ pc'[t] # "p_kill") => pc'[t] = "p_reset"]_vars

\* C7 (as amended): after a successful stop the session is idle, a start
\* request is then accepted, and a launch that gets past the lookups and Popen
\* is answered with success; the start time of the new session is a reading
\* of the clock taken during that launch: it is not less than the start time
\* of the session before, nor than the creation time of that session's
\* subprocess.
C7_RelaunchAfterStop ==
  /\ [](\A t \in Threads : (pc[t] = "idle" /\ res[t].kind = "stop_ok") => Idle)
  /\ [](\A t \in Threads :
          (Truthy(prevStart) /\ (capture_active \/
                pc[t] \in {"s_logs", "s_spawn", "s_activate", "s_return"})) =>
             /\ prevStart <= selenium_start_time /\ selenium_start_time <= now
             /\ \A p \in SpawnedPids :
                   p # capture_process => procs[p].ctime <= selenium_start_time)
  /\ [][\A t \in Threads :
          /\ (StartCheck(t) /\ Idle) => pc'[t] = "s_resolve"
          /\ (pc[t] = "s_activate" /\ pc'[t] # "s_activate") => pc'[t] = "s_return"
          /\ (pc[t] = "s_return" /\ pc'[t] # "s_return") =>
                /\ res'[t] = Resp("start_ok", capture_process, "none", <<>>)
                /\ capture_active /\ capture_process = spawned[t]]_vars

C7_Witness ==
  \E t \in Threads :
     /\ pc[t] = "idle" /\ res[t].kind = "start_ok" /\ capture_active
     /\ Truthy(prevStart) /\ selenium_start_time > prevStart

\* C7 as claimed: the start time of the session launched after a successful
\* stop is strictly greater than that of the session before.
C7_Original ==
  \A t \in Threads :
     (Truthy(prevStart) /\ capture_active) => selenium_start_time > prevStart

\* C8: a launch that finds the driver binary missing has spawned nothing,
\* opened no log file and set no start time when it reaches its except block,
\* and it ends with the 'not found' failure and the session idle.
C8_MissingDriver ==
  /\ [](\A t \in Threads :
          exc[t] = "driver_not_found" =>
             /\ pc[t] \in {"s_except", "s_exc_reset"}
             /\ spawned[t] = None /\ logs[t] = "none"
             /\ Idle)
  /\ [][\A t \in Threads :
          (exc[t] = "driver_not_found" /\ pc'[t] = "idle") =>
             /\ res'[t] = Resp("start_failed", None, "driver_not_found", <<>>)
             /\ Idle'
             /\ UNCHANGED <<procs, logTrunc>>]_vars

C8_Witness ==
  \E t \in Threads :
     /\ pc[t] = "idle" /\ res[t] = Resp("start_failed", None, "driver_not_found", <<>>)
     /\ Idle /\ logTrunc = 0 /\ SpawnedPids = {}

\* C9: a stop request made while no session is active is answered 'no
\* capture running'; the step runs no sweep and changes neither the handle,
\* the active flag, the start time nor any process.
C9_RejectedStopChangesNothing ==
  [][\A t \in Threads :
       (StopCheck(t) /\ ~capture_active) =>
          /\ res'[t] = Resp("stop_rejected", None, "no_capture_running", <<>>)
          /\ pc'[t] = "idle"
          /\ UNCHANGED <<capture_process, capture_active, selenium_start_time,
                         procs>>]_vars

C9_Witness ==
  \E t \in Threads : res[t].kind = "stop_rejected" /\ Idle

\* C10: no exception leaves signal_handler, and the handler ends in
\* os._exit with status 0.
C10_HandlerAlwaysExits ==
  /\ hpc # "h_raised"
  /\ hpc = "h_done" => (exited /\ exitCode = <<0>>)

\* the name tests of lines 302, 305 and 308, on a process of the table
DriverNamed(p) == HasAny(StopDrivers, lower(Chars[procs[p].name]))

BrowserNamed(p) ==
  /\ ~DriverNamed(p)
  /\ HasAny(StopBrowsers, lower(Chars[procs[p].name]))

Automated(p) ==
  \/ IsSubstr(P_selenium, lower(Chars[procs[p].cmd]))
  \/ IsSubstr(P_remote, lower(Chars[procs[p].cmd]))

\* the processes the step ends
KilledInStep == {p \in Pids : procs[p].st = "alive" /\ procs'[p].st = "dead"}

\* C11: a stop sweep that runs to its end with threshold T = selenium_start_time
\* kills only processes created strictly after T that are driver-named or
\* browser-named with automation evidence, reports exactly the (lower-cased)
\* names of the processes it killed, in the order of the iteration, leaves
\* every browser-named process created before T as it was, and a driver-named
\* process created after T that it did not kill (it had exited, or access was
\* denied) is left as it was and not reported.
C11_StopSweepSelects ==
  [][\A t \in Threads :
       (pc[t] = "p_sweep" /\ pc'[t] = "p_if") =>
          LET T == selenium_start_time
              K == KilledInStep
          IN /\ \A p \in K :
                   /\ procs'[p].by = "stop_sweep"
                   /\ procs[p].ctime > T
                   /\ DriverNamed(p) \/ (BrowserNamed(p) /\ Automated(p))
             /\ \A p \in Pids :
                   (BrowserNamed(p) /\ procs[p].ctime < T) => procs'[p] = procs[p]
             /\ \A p \in Pids \ K : procs'[p] = procs[p]
             /\ killed_processes'[t] = NamesOf(K, 1)
             /\ Len(killed_processes'[t]) = Cardinality(K)]_vars

\* the scenario of the claim: after the sweep, the driver created at T+1 is
\* killed and reported, the automated browser created at T-1 still runs
C11_Witness ==
  \E t \in Threads, d \in EnvPids, b \in EnvPids :
     /\ pc[t] = "p_if" /\ Truthy(selenium_start_time)
     /\ DriverNamed(d) /\ procs[d].ctime = selenium_start_time + 1
     /\ procs[d].st = "dead" /\ procs[d].by = "stop_sweep"
     /\ BrowserNamed(b) /\ Automated(b)
     /\ procs[b].ctime = selenium_start_time - 1
     /\ procs[b].st = "alive"
     /\ killed_processes[t] = <<lower(Chars[procs[d].name])>>

\* the request threads that are past their active check (line 193 or 288) and
\* have not returned yet
InTransition == {t \in Threads : pc[t] # "idle"}

\* C12: at no time are two start or stop requests past their active check
\* together.
C12_TransitionsExclusive == Cardinality(InTransition) <= 1

\* what the stop sweep of lines 297-312 would kill in the current state
StopVictims == {p \in Pids : StopVictim(p, selenium_start_time)}

\* C13: with a session active, every process the signal-triggered cleanup
\* kills is one the stop sweep would kill in the same state.
C13_CleanupIsStopSweep ==
  [][(capture_active /\ hpc = "h_cleanup" /\ hpc' = "h_if") =>
        KilledInStep \subseteq StopVictims]_vars

\* a stop request is past its active check (line 288) and has not returned
StopInProgress ==
  \E t \in Threads :
     pc[t] \in {"p_sweep", "p_if", "p_poll", "p_term", "p_wait", "p_waiting",
                "p_kill", "p_reset"}

\* C14: in every state, selenium_start_time is set if and only if the session
\* is active or a stop is in progress.
C14_StartedAtIffActive ==
  Truthy(selenium_start_time) <=> (capture_active \/ StopInProgress)

\* a launch is in its except block (lines 267-279)
InExcept(t) == pc[t] \in {"s_except", "s_exc_term", "s_exc_reset"}

\* C15: a launch that reached its except block leaves it only by returning
\* the failure result, with the session reset to idle; an error of the
\* terminate request of line 270 does not change that.
C15_FailedLaunchRollsBack ==
  [][\A t \in Threads :
       (InExcept(t) /\ ~InExcept(t)') =>
          /\ pc'[t] = "idle"
          /\ res'[t].kind = "start_failed"
          /\ Idle']_vars

\* the process was killed by a sweep: the one of stop or the one of the
\* signal handler
Swept(p) == procs[p].by \in {"stop_sweep", "cleanup_sweep"}

\* C16: a browser-named process that a sweep killed was created strictly
\* after the start time the session had then, is not the protected pid, and
\* has automation evidence in its command line.
C16_BrowserVictimNeedsEvidence ==
  \A p \in Pids :
     (BrowserNamed(p) /\ Swept(p)) =>
        /\ Truthy(procs[p].thr) /\ procs[p].ctime > procs[p].thr
        /\ p # ui_browser_pid
        /\ Automated(p)

\* a stop sweep has killed an automated browser and left running a browser
\* without evidence that was created after the start time as well
C16_Witness ==
  \E t \in Threads, p \in EnvPids, q \in EnvPids :
     /\ pc[t] = "p_if"
     /\ BrowserNamed(p) /\ Automated(p) /\ procs[p].by = "stop_sweep"
     /\ BrowserNamed(q) /\ ~Automated(q) /\ procs[q].st = "alive"
     /\ procs[q].ctime > selenium_start_time

\* the forced kills: line 320 of stop, line 179 of the signal handler
ForceKilled(p) == procs[p].by \in {"stop_kill", "signal_kill"}

\* C17: the steps of the termination protocol come in order, in stop and in
\* the signal handler alike: the sweep, then the test of the handle; the
\* terminate request only on a subprocess found running; the wait only after
\* the terminate request; the forced kill only after a wait of WaitTimeout
\* time units that the terminated subprocess survived; a wait that ends
\* because the subprocess exited goes on without a kill; and a process is
\* force-killed only by the kill step, after it was sent a terminate request.
C17_ProtocolOrdered ==
  [][/\ \A t \in Threads :
          /\ (pc'[t] = "p_sweep" /\ pc[t] # "p_sweep") => pc[t] = "idle"
          /\ (pc'[t] = "p_if" /\ pc[t] # "p_if") => pc[t] = "p_sweep"
          /\ (pc'[t] = "p_poll" /\ pc[t] # "p_poll") => pc[t] = "p_if"
          /\ (pc'[t] = "p_term" /\ pc[t] # "p_term") =>
                (pc[t] = "p_poll" /\ Running(capture_process))
          /\ (pc'[t] = "p_wait" /\ pc[t] # "p_wait") =>
                /\ pc[t] = "p_term"
                /\ Alive(capture_process) => procs'[capture_process].term
          /\ (pc'[t] = "p_waiting" /\ pc[t] # "p_waiting") => pc[t] = "p_wait"
          /\ (pc'[t] = "p_kill" /\ pc[t] # "p_kill") =>
                /\ pc[t] = "p_waiting" /\ waited[t] = WaitTimeout
                /\ Alive(waitOn[t]) /\ procs[waitOn[t]].term
          /\ (pc[t] = "p_waiting" /\ pc'[t] # "p_waiting" /\ ~Alive(waitOn[t])) =>
                pc'[t] = "p_reset"
     /\ (hpc' = "h_if" /\ hpc # "h_if") => hpc = "h_cleanup"
     /\ (hpc' = "h_poll" /\ hpc # "h_poll") => hpc = "h_if"
     /\ (hpc' = "h_term" /\ hpc # "h_term") =>
           (hpc = "h_poll" /\ Running(capture_process))
     /\ (hpc' = "h_wait" /\ hpc # "h_wait") =>
           /\ hpc = "h_term"
           /\ Alive(capture_process) => procs'[capture_process].term
     /\ (hpc' = "h_waiting" /\ hpc # "h_waiting") => hpc = "h_wait"
     /\ (hpc' = "h_kill" /\ hpc # "h_kill") =>
           /\ hpc = "h_waiting" /\ hWaited = WaitTimeout
           /\ Alive(hWaitOn) /\ procs[hWaitOn].term
     /\ (hpc = "h_waiting" /\ hpc' # "h_waiting" /\ ~Alive(hWaitOn)) =>
           hpc' = "h_exit"
     /\ \A p \in Pids :
          (ForceKilled(p)' /\ ~ForceKilled(p)) =>
             /\ Alive(p) /\ procs[p].term
             /\ (hpc = "h_kill" /\ hpc' = "h_exit")
                  \/ \E t \in Threads : pc[t] = "p_kill" /\ pc'[t] = "p_reset"]_vars

\* the signal handler has escalated: its subprocess was sent the terminate
\* request, outlived the wait and was force-killed, and the handler exited
C17_Witness ==
  \E p \in SubPids :
     /\ hpc = "h_done"
     /\ procs[p].term /\ procs[p].by = "signal_kill"

\* the stop is past its sweep
AfterSweep(t) ==
  pc[t] \in {"p_if", "p_poll", "p_term", "p_wait", "p_waiting", "p_kill",
             "p_reset"}

\* C18: a candidate that had exited or denied access makes no sweep fail. The
\* stop sweep ends in the except block only on an exception of another kind;
\* otherwise it goes on to the handle test, whichever candidates it could not
\* kill: those are left as they were and the list holds one name per process
\* killed. After the sweep a stop fails only by an error of the terminate /
\* wait / kill calls on the handle, and the reset answers success with the
\* session idle. The cleanup of the signal handler always goes on to the
\* handle test.
C18_SweepSkipsFailures ==
  [][/\ \A t \in Threads :
          /\ (pc[t] = "p_sweep" /\ pc'[t] # "p_sweep") =>
                \/ /\ pc'[t] = "idle"
                   /\ res'[t] = Resp("stop_error", None, "sweep_error", <<>>)
                \/ /\ pc'[t] = "p_if"
                   /\ \A p \in Pids \ KilledInStep : procs'[p] = procs[p]
                   /\ killed_processes'[t] = NamesOf(KilledInStep, 1)
          /\ (AfterSweep(t) /\ pc'[t] = "idle") =>
                \/ /\ res'[t].kind = "stop_error"
                   /\ res'[t].err \in {"os_error", "attribute_error"}
                \/ /\ pc[t] = "p_reset"
                   /\ res'[t] = Resp("stop_ok", None, "none", killed_processes[t])
                   /\ Idle'
     /\ (hpc = "h_cleanup" /\ hpc' # "h_cleanup") =>
           /\ hpc' = "h_if"
           /\ \A p \in Pids \ KilledInStep : procs'[p] = procs[p]]_vars

\* a stop has answered success and left the session idle although its sweep
\* could not kill one of its candidates: that one still runs, another one was
\* killed and is the only name reported
C18_Witness ==
  \E t \in Threads, p \in EnvPids, q \in EnvPids :
     /\ pc[t] = "idle" /\ res[t].kind = "stop_ok" /\ Idle
     /\ Truthy(prevStart)
     /\ procs[p].st = "alive" /\ procs[p].ctime > prevStart
     /\ DriverNamed(p) \/ (BrowserNamed(p) /\ Automated(p))
     /\ procs[q].by = "stop_sweep"
     /\ res[t].killed = <<lower(Chars[procs[q].name])>>

\* C19: the session leaves the active state only in the reset of a stop
\* (lines 322-324) or of a launch's except block (lines 271-273). The exit of
\* the tracked subprocess changes none of the three globals; a start request
\* is rejected as long as the session is active, whether the subprocess runs
\* or not; and a stop that finds the subprocess exited goes to its reset
\* without a terminate or kill request.
C19_OnlyStopEndsSession ==
  [][/\ (capture_active /\ ~capture_active') =>
           \E t \in Threads :
              /\ pc[t] \in {"p_reset", "s_exc_reset"} /\ pc'[t] = "idle"
              /\ res'[t].kind \in {"stop_ok", "start_failed"}
              /\ Idle'
     /\ (\E p \in SubPids : Alive(p) /\ procs'[p].st = "dead"
                              /\ procs'[p].by = "exit") =>
           UNCHANGED <<capture_process, capture_active, selenium_start_time>>
     /\ \A t \in Threads :
          /\ (StartCheck(t) /\ capture_active /\ ~Alive(capture_process)) =>
                /\ res'[t].kind = "start_rejected" /\ pc'[t] = "idle"
                /\ UNCHANGED <<capture_process, capture_active,
                               selenium_start_time, procs>>
          /\ (pc[t] = "p_poll" /\ pc'[t] # "p_poll" /\ capture_process # None
                /\ ~Alive(capture_process)) =>
                /\ pc'[t] = "p_reset"
                /\ procs' = procs]_vars

\* the subprocess exited on its own and was never sent a terminate request;
\* the session stayed active until a stop answered success and left it idle
C19_Witness ==
  \E t \in Threads, p \in SubPids :
     /\ pc[t] = "idle" /\ res[t].kind = "stop_ok" /\ Idle
     /\ procs[p].st = "dead" /\ procs[p].by = "exit" /\ ~procs[p].term
     /\ prevStart = procs[p].ctime

\* signal_handler has nothing left to run: it called os._exit, or an
\* exception left it
HandlerEnded == hpc \in {"h_done", "h_raised"}

\* C20: whatever a stop request in flight does meanwhile, a signal handler
\* that has run to its end has made the service exit.
C20_SignalDuringStopExits == HandlerEnded => exited

\* C21: a stop that ends in its except block (lines 332-337) answers with an
\* error and resets nothing: the session is still active, with the handle and
\* the start time it had; whatever the sweep killed stays killed. A start is
\* then rejected and a stop is accepted again.
C21_FailedStopKeepsSession ==
  [][\A t \in Threads :
       /\ (pc[t] # "idle" /\ pc'[t] = "idle" /\ res'[t].kind = "stop_error") =>
             /\ UNCHANGED <<capture_process, capture_active, selenium_start_time>>
             /\ capture_active /\ capture_process # None
             /\ Truthy(selenium_start_time)
             /\ \A p \in Pids : procs[p].st = "dead" => procs'[p] = procs[p]
       /\ (res[t].kind = "stop_error" /\ pc[t] = "idle" /\ StartCheck(t)) =>
             res'[t].kind = "start_rejected"
       /\ (res[t].kind = "stop_error" /\ pc[t] = "idle" /\ StopCheck(t)) =>
             pc'[t] = "p_sweep"]_vars

\* a stop is being retried: it is past its active check and has not swept
\* yet, while a process killed by the sweep of an earlier, failed stop shows
\* that the session outlived that stop
C21_Witness ==
  \E t \in Threads, p \in EnvPids :
     /\ pc[t] = "p_sweep" /\ capture_active /\ capture_process # None
     /\ SpawnedPids = {capture_process}
     /\ procs[p].by = "stop_sweep" /\ procs[p].thr = selenium_start_time

\* no start or stop request is in progress
NoRequestInProgress == \A t \in Threads : pc[t] = "idle"

\* C22: whenever no start or stop request is in progress, the session is
\* active exactly if the handle is set, and an inactive session is idle: no
\* handle, no start time.
C22_ActiveIffHandle ==
  NoRequestInProgress =>
     /\ capture_active <=> capture_process # None
     /\ ~capture_active => Idle

\* between two requests, after a stop that failed: the session is still
\* active and still holds its handle
C22_Witness ==
  /\ NoRequestInProgress
  /\ \E t \in Threads : res[t].kind = "stop_error"
  /\ capture_active /\ capture_process # None
  /\ Truthy(selenium_start_time)

====
